---- MODULE Spec2Model ----
(***************************************************************************)
(* Monitoring and alerting engine of the deployment dashboard:             *)
(* MonitoringService (scheduler, check pipeline, alert decision,           *)
(* auto-restart) over the DeployedApp documents of the registry.           *)
(*                                                                         *)
(* Time is in seconds and the clock shows it in whole cron periods;        *)
(* response times are in milliseconds.  A document loaded from the         *)
(* registry is a private copy; save() writes the paths modified since the  *)
(* last successful save, and nothing else.                                 *)
(***************************************************************************)
EXTENDS Integers, Sequences, FiniteSets, TLC

\* ------------------------------------------------------------------ bounds
MaxChecks == 3
MaxOverlaps == 1
MaxFailures == 5
MaxTime == 60
NumPipes == 2
MaxErrors == 2

\* ------------------------------------------------- constants of the program
AlertDownFailures == 3
SlowResponseMs == 5000
SlowResponseFailures == 2
AlertWarningFailures == 5
RestartFailures == 3
CheckIntervalSec == 30
RestartDelaySec == 2
DefaultMaxRestartAttempts == 3
BatchSize == 10
CriticalFailures == 5
SevereResponseMs == 10000
RetentionSec == 2592000

Targets == {"app1"}

\* the targets in the order the registry returns them
TargetOrder ==
    << "app1", "app2", "app3", "app4", "app5", "app6",
       "app7", "app8", "app9", "app10", "app11" >>

Position(t) == CHOOSE i \in DOMAIN TargetOrder : TargetOrder[i] = t
Pipes == 1..NumPipes
ResponseTimes == {100, 6000, 12000}
HttpStatuses == {200, 302, 404, 500}
ErrorCodes == {"ECONNREFUSED", "ENOTFOUND", "ETIMEDOUT", "ECONNABORTED", "ECONNRESET"}
Responses == [kind : {"http"}, code : HttpStatuses] \cup [kind : {"error"}, code : ErrorCodes]
JobNames == {"main-monitoring", "aggregation", "cleanup"}

VARIABLES
    now,        \* wall clock, seconds since the targets were registered
    db,         \* the registry: target -> persisted DeployedApp document
    pipe,       \* check pipelines (invocations of checkAppHealth) in flight
    isRunning,  \* MonitoringService.isRunning
    jobs,       \* names of the cron jobs in MonitoringService.monitoringJobs
    dbUp,       \* the registry answers (FALSE: every query and save() rejects)
    overlaps,   \* number of pipelines started while another one was in flight
    alert,      \* the call of NotificationService.sendAlert under observation
    agg,        \* the run of aggregateHealthMetrics in flight
    logged      \* the jobs and requests whose catch block logged an error, in order

vars == <<now, db, pipe, isRunning, jobs, dbUp, overlaps, alert, agg, logged>>

\* ------------------------------------------------------------ the documents
\* deployedAppSchema: the defaults of a new document
NewApp(monEnabled, autoRestart, maxRestart, hasUrl, active, deployed) ==
    [ healthStatus        |-> "unknown",
      monitoringEnabled   |-> monEnabled,
      lastCheck           |-> 0,
      uptimePercentage    |-> 100,
      checksPerformed     |-> 0,
      consecutiveFailures |-> 0,
      incidents           |-> << >>,
      autoRestart         |-> autoRestart,
      maxRestartAttempts  |-> maxRestart,
      hasUrl              |-> hasUrl,
      isActive            |-> active,
      deployed            |-> deployed ]

DocFields == DOMAIN NewApp(TRUE, TRUE, 3, TRUE, TRUE, TRUE)

\* a document as a pipeline holds it: the values, the paths modified since
\* the last successful save, and the incidents pushed since then
Load(rec) == [rec |-> rec, dirty |-> {}, pushed |-> << >>]

\* assignment to a path: marks it modified when the value changes
SetPath(doc, field, val) ==
    IF doc.rec[field] = val
    THEN doc
    ELSE [doc EXCEPT !.rec[field] = val, !.dirty = @ \cup {field}]

\* assignment of new Date(): always a new value
SetDate(doc, field, val) ==
    [doc EXCEPT !.rec[field] = val, !.dirty = @ \cup {field}]

\* schema validation of the modified paths (uptimePercentage: min 0, max 100)
Valid(doc) ==
    "uptimePercentage" \in doc.dirty =>
        (doc.rec.uptimePercentage >= 0 /\ doc.rec.uptimePercentage <= 100)

\* what a successful save() leaves in the registry
Persist(stored, doc) ==
    [f \in DocFields |->
        IF f = "incidents" THEN stored.incidents \o doc.pushed
        ELSE IF f \in doc.dirty THEN doc.rec[f]
        ELSE stored[f]]

Saved(doc) == [doc EXCEPT !.dirty = {}, !.pushed = << >>]

Max(a, b) == IF a >= b THEN a ELSE b

\* updateHealthStatus that keeps the failure count on an up observation
UpdateHealthStatusNoReset(doc, status, responseTime, t) ==
    LET d1 == SetPath(doc, "healthStatus", status)
        d2 == SetDate(d1, "lastCheck", t)
        d3 == SetPath(d2, "checksPerformed", d2.rec.checksPerformed + 1)
        d4 == IF status \in {"down", "warning"}
              THEN SetPath(d3, "consecutiveFailures", d3.rec.consecutiveFailures + 1)
              ELSE d3
        uptimeChecks == d4.rec.checksPerformed - d4.rec.consecutiveFailures
    IN  SetPath(d4, "uptimePercentage",
                (uptimeChecks * 100) \div (IF d4.rec.checksPerformed >= 1
                                           THEN d4.rec.checksPerformed ELSE 1))

\* updateHealthStatus, up to the save(); uptimePercentage in whole percent;
\* the response time statistics are read by no step of the engine
UpdateHealthStatus(doc, status, responseTime, t) ==
    LET d1 == SetPath(doc, "healthStatus", status)
        d2 == SetDate(d1, "lastCheck", t)
        d3 == SetPath(d2, "checksPerformed", d2.rec.checksPerformed + 1)
        d4 == IF status = "up"
              THEN SetPath(d3, "consecutiveFailures", 0)
              ELSE IF status \in {"down", "warning"}
              THEN SetPath(d3, "consecutiveFailures", d3.rec.consecutiveFailures + 1)
              ELSE d3
        uptimeChecks == d4.rec.checksPerformed - d4.rec.consecutiveFailures
    IN  SetPath(d4, "uptimePercentage",
                (uptimeChecks * 100) \div Max(d4.rec.checksPerformed, 1))

\* createIncident, up to the save()
CreateIncident(doc, type, severity, t) ==
    LET incident == [type |-> type, severity |-> severity, startTime |-> t,
                     resolved |-> FALSE, endTime |-> -1, duration |-> -1]
    IN  [doc EXCEPT !.rec.incidents = Append(@, incident),
                    !.pushed = Append(@, incident)]

\* shouldAutoRestart without the test of the policy flag
ShouldAutoRestartAnyPolicy(rec) ==
    /\ rec.consecutiveFailures >= RestartFailures
    /\ rec.healthStatus = "down"

\* shouldAutoRestart one failure early
ShouldAutoRestartEarly(rec) ==
    /\ rec.autoRestart
    /\ rec.consecutiveFailures >= RestartFailures - 1
    /\ rec.healthStatus = "down"

\* shouldAutoRestart
ShouldAutoRestart(rec) ==
    /\ rec.autoRestart
    /\ rec.consecutiveFailures >= RestartFailures
    /\ rec.healthStatus = "down"

\* the query without its condition on monitoringEnabled
DueIgnoringEnabled(rec, t) ==
    /\ rec.isActive
    /\ rec.deployed
    /\ rec.lastCheck < t - CheckIntervalSec

\* findAppsForMonitoring: the query, on one stored document
DueForMonitoring(rec, t) ==
    /\ rec.monitoringEnabled
    /\ rec.isActive
    /\ rec.deployed
    /\ rec.lastCheck < t - CheckIntervalSec

\* checkAppHealth: the classification of the probe's response
Classify(resp) ==
    IF resp.kind = "http"
    THEN IF resp.code >= 200 /\ resp.code < 400 THEN "up"
         ELSE IF resp.code >= 400 /\ resp.code < 500 THEN "warning"
         ELSE "down"
    ELSE IF resp.code \in {"ECONNREFUSED", "ENOTFOUND", "ETIMEDOUT"} THEN "down"
         ELSE "warning"

\* what a probe can meet
Outcomes == {"2xx", "3xx", "4xx", "5xx", "refused", "dns", "timeout", "reset"}

\* the settled request of axios.get for each of them.  A status of 500 and
\* more is rejected by validateStatus and reaches the catch block with
\* err.response.  A connect timeout of the operating system rejects with
\* ETIMEDOUT, the timer of the request's timeout option with ECONNABORTED.
Received(outcome) ==
    CASE outcome = "2xx"     -> {[kind |-> "http", code |-> 200]}
      [] outcome = "3xx"     -> {[kind |-> "http", code |-> 302]}
      [] outcome = "4xx"     -> {[kind |-> "http", code |-> 404]}
      [] outcome = "5xx"     -> {[kind |-> "http", code |-> 500]}
      [] outcome = "refused" -> {[kind |-> "error", code |-> "ECONNREFUSED"]}
      [] outcome = "dns"     -> {[kind |-> "error", code |-> "ENOTFOUND"]}
      [] outcome = "timeout" -> {[kind |-> "error", code |-> "ETIMEDOUT"],
                                 [kind |-> "error", code |-> "ECONNABORTED"]}
      [] OTHER               -> {[kind |-> "error", code |-> "ECONNRESET"]}

\* shouldSendAlert with the downtime rule one failure early
ShouldSendAlertEager(rec, status, responseTime) ==
    IF ~ rec.monitoringEnabled THEN FALSE
    ELSE IF status = "down" /\ rec.consecutiveFailures >= AlertDownFailures - 1 THEN TRUE
    ELSE IF responseTime > SlowResponseMs
            /\ rec.consecutiveFailures >= SlowResponseFailures THEN TRUE
    ELSE IF status = "warning" /\ rec.consecutiveFailures >= AlertWarningFailures THEN TRUE
    ELSE FALSE

\* shouldSendAlert without the slow-response rule
ShouldSendAlertNoSlow(rec, status, responseTime) ==
    IF ~ rec.monitoringEnabled THEN FALSE
    ELSE IF status = "down" /\ rec.consecutiveFailures >= AlertDownFailures THEN TRUE
    ELSE IF status = "warning" /\ rec.consecutiveFailures >= AlertWarningFailures THEN TRUE
    ELSE FALSE

\* shouldSendAlert
ShouldSendAlert(rec, status, responseTime) ==
    IF ~ rec.monitoringEnabled THEN FALSE
    ELSE IF status = "down" /\ rec.consecutiveFailures >= AlertDownFailures THEN TRUE
    ELSE IF responseTime > SlowResponseMs
            /\ rec.consecutiveFailures >= SlowResponseFailures THEN TRUE
    ELSE IF status = "warning" /\ rec.consecutiveFailures >= AlertWarningFailures THEN TRUE
    ELSE FALSE

\* the guard without its test of the failure count
OpensIncidentOnEveryDown(rec, status) ==
    status = "down"

\* checkAlertConditions: the guard of createIncident inside the alert branch
OpensIncident(rec, status) ==
    rec.consecutiveFailures = 1 /\ status = "down"

\* ------------------------------------------------------- the notifications
Channels == {"email", "slack", "webhook"}

\* the user as sendAlert reads it: preferences.notifications and
\* integrations.slack.enabled
Users == [email : BOOLEAN, slack : BOOLEAN, slackEnabled : BOOLEAN, webhooks : BOOLEAN]

DefaultUser == [email |-> TRUE, slack |-> FALSE, slackEnabled |-> FALSE, webhooks |-> FALSE]

\* determineAlertSeverity without its rule for critical
DetermineAlertSeverityNoCritical(status, consecutiveFailures, responseTime) ==
    IF status = "down" THEN "high"
    ELSE IF responseTime > SevereResponseMs THEN "medium"
    ELSE "low"

\* determineAlertSeverity with medium from the slow-response threshold on
DetermineAlertSeverityEagerMedium(status, consecutiveFailures, responseTime) ==
    IF status = "down" /\ consecutiveFailures >= CriticalFailures THEN "critical"
    ELSE IF status = "down" THEN "high"
    ELSE IF responseTime > SlowResponseMs THEN "medium"
    ELSE "low"

\* determineAlertSeverity
DetermineAlertSeverity(status, consecutiveFailures, responseTime) ==
    IF status = "down" /\ consecutiveFailures >= CriticalFailures THEN "critical"
    ELSE IF status = "down" THEN "high"
    ELSE IF responseTime > SevereResponseMs THEN "medium"
    ELSE IF status = "warning" THEN "low"
    ELSE "low"

\* sendAlert: the notifications array, one call per channel the user enabled
Dispatched(user) ==
    (IF user.email THEN <<"email">> ELSE << >>)
    \o (IF user.slack /\ user.slackEnabled THEN <<"slack">> ELSE << >>)
    \o (IF user.webhooks THEN <<"webhook">> ELSE << >>)

\* the senders awaited one after the other: the first rejection ends the try
AttemptedUntilRejection(calls, fails) ==
    IF \E i \in DOMAIN calls : calls[i] \in fails
    THEN SubSeq(calls, 1, CHOOSE i \in DOMAIN calls :
                             /\ calls[i] \in fails
                             /\ \A j \in 1..(i - 1) : calls[j] \notin fails)
    ELSE calls

\* sendAlert: every sender is called when its promise is pushed, before
\* Promise.allSettled waits for them
Attempted(calls, fails) ==
    calls

\* sendWebhookAlert resolves always; the two other senders reject when their
\* channel is not configured or its delivery fails
Rejects(channel, fails) == channel \in fails /\ channel # "webhook"

NoAlert ==
    [ checked |-> FALSE, monitoringEnabled |-> TRUE, shouldAlert |-> FALSE,
      called |-> FALSE, status |-> "unknown", consecutiveFailures |-> 0,
      responseTime |-> 0, user |-> DefaultUser, fails |-> {},
      severity |-> "low", attempted |-> << >>, rejected |-> {}, raised |-> FALSE ]

\* sendAlert: allSettled turns every rejection into a logged result, and the
\* try block leaves nothing to raise
Sent(user, fails, status, consecutiveFailures, responseTime) ==
    LET failing == {c \in Channels : Rejects(c, fails)}
        calls == Attempted(Dispatched(user), failing)
    IN  [ NoAlert EXCEPT
            !.called = TRUE, !.status = status,
            !.consecutiveFailures = consecutiveFailures,
            !.responseTime = responseTime, !.user = user, !.fails = failing,
            !.severity = DetermineAlertSeverity(status, consecutiveFailures,
                                                responseTime),
            !.attempted = calls,
            !.rejected = {calls[i] : i \in {j \in DOMAIN calls : calls[j] \in failing}} ]

\* a call of sendAlert
SendAlert(user, fails, status, consecutiveFailures, responseTime) ==
    /\ alert = NoAlert
    /\ alert' = Sent(user, fails, status, consecutiveFailures, responseTime)
    /\ UNCHANGED <<now, db, pipe, isRunning, jobs, dbUp, overlaps, agg, logged>>

\* checkAlertConditions for a user that is found: sendAlert is called, with
\* the failure count of the document, when shouldSendAlert says so
CheckAlertConditions(rec, user, fails, status, responseTime) ==
    /\ alert = NoAlert
    /\ alert' =
          [ (IF ShouldSendAlert(rec, status, responseTime)
             THEN Sent(user, fails, status, rec.consecutiveFailures, responseTime)
             ELSE [NoAlert EXCEPT !.status = status,
                                  !.consecutiveFailures = rec.consecutiveFailures,
                                  !.responseTime = responseTime])
            EXCEPT !.checked = TRUE,
                   !.monitoringEnabled = rec.monitoringEnabled,
                   !.shouldAlert = ShouldSendAlert(rec, status, responseTime) ]
    /\ UNCHANGED <<now, db, pipe, isRunning, jobs, dbUp, overlaps, agg, logged>>

\* the promise of sendAlert is settled and the call is over
AlertReturns ==
    /\ alert # NoAlert
    /\ alert' = NoAlert
    /\ UNCHANGED <<now, db, pipe, isRunning, jobs, dbUp, overlaps, agg, logged>>

\* ------------------------------------------------------ the periodic jobs
\* no run of the aggregation is in flight
NoAgg == [pc |-> "idle", docs |-> << >>]

\* a save() of a document resolves or rejects
SaveSucceeds(doc) == dbUp /\ Valid(doc)

\* aggregateHealthMetrics: the documents of the query, in its order
Aggregated ==
    LET found == {t \in DOMAIN db : db[t].isActive /\ db[t].deployed}
    IN  SelectSeq(TargetOrder, LAMBDA t : t \in found)

\* aggregateHealthMetrics: the body of its loop, up to the save()
Estimate(doc) ==
    SetPath(doc, "uptimePercentage", Max(0, 100 - doc.rec.consecutiveFailures * 2))

\* the aggregation job: the query is answered
AggregateLoads ==
    /\ "aggregation" \in jobs
    /\ agg.pc = "idle"
    /\ dbUp
    /\ Aggregated # << >>
    /\ agg' = [pc |-> "save",
               docs |-> [i \in DOMAIN Aggregated |->
                           [app |-> Aggregated[i], doc |-> Load(db[Aggregated[i]])]]]
    /\ UNCHANGED <<now, db, pipe, isRunning, jobs, dbUp, overlaps, alert, logged>>

\* the aggregation job: the save() of the next document settles; a rejection
\* ends the loop in the catch block
AggregateSaves ==
    /\ agg.pc = "save"
    /\ LET t   == Head(agg.docs).app
           doc == Estimate(Head(agg.docs).doc)
       IN  IF SaveSucceeds(doc)
           THEN /\ db' = [db EXCEPT ![t] = Persist(@, doc)]
                /\ agg' = IF Len(agg.docs) = 1 THEN NoAgg
                          ELSE [agg EXCEPT !.docs = Tail(@)]
                /\ logged' = logged
           ELSE /\ Len(logged) < MaxErrors
                /\ db' = db
                /\ agg' = NoAgg
                /\ logged' = Append(logged, "aggregation")
    /\ UNCHANGED <<now, pipe, isRunning, jobs, dbUp, overlaps, alert>>

\* the aggregation job: the query is rejected, caught and logged
AggregateFails ==
    /\ "aggregation" \in jobs
    /\ agg.pc = "idle"
    /\ ~ dbUp
    /\ Len(logged) < MaxErrors
    /\ logged' = Append(logged, "aggregation")
    /\ UNCHANGED <<now, db, pipe, isRunning, jobs, dbUp, overlaps, alert, agg>>

\* a $pull on the age alone
RetainedYoung(incidents, t) ==
    SelectSeq(incidents, LAMBDA i : ~ (i.startTime < t - RetentionSec))

\* the $pull of cleanupOldData on one document
Retained(incidents, t) ==
    SelectSeq(incidents, LAMBDA i : ~ (i.startTime < t - RetentionSec /\ i.resolved))

\* the cleanup job: updateMany over every document, or its rejection caught
\* and logged
Cleanup ==
    /\ "cleanup" \in jobs
    /\ IF dbUp
       THEN /\ db' = [t \in DOMAIN db |->
                        [db[t] EXCEPT !.incidents = Retained(@, now)]]
            /\ logged' = logged
       ELSE /\ Len(logged) < MaxErrors
            /\ db' = db
            /\ logged' = Append(logged, "cleanup")
    /\ UNCHANGED <<now, pipe, isRunning, jobs, dbUp, overlaps, alert, agg>>

\* ------------------------------------------------------------ the pipelines
NoDoc == Load(NewApp(TRUE, TRUE, DefaultMaxRestartAttempts, TRUE, TRUE, TRUE))

Idle ==
    [ pc |-> "idle", app |-> "none", doc |-> NoDoc, status |-> "unknown",
      alerted |-> FALSE, events |-> << >>, restartAt |-> -1, thrown |-> FALSE ]

\* the slots a new pipeline can take: never used, or of a settled pipeline
IdlePipes == {p \in DOMAIN pipe : pipe[p].pc \in {"idle", "done"}}

InFlight == {p \in DOMAIN pipe : pipe[p].pc \notin {"idle", "done"}}

\* the count of pipelines started while one of an earlier tick or request is
\* in flight, after n more are started; at most k such starts are explored
Overlapping(n, k) ==
    /\ overlaps' = IF InFlight = {} THEN overlaps ELSE overlaps + n
    /\ overlaps' <= k

\* checkAppHealth that sends its request whatever the URL is
StartPipeAnyUrl(t) ==
    [Idle EXCEPT !.pc = "probe", !.app = t, !.doc = Load(db[t])]

\* checkAppHealth up to the request: a target without URL returns at once
StartPipe(t) ==
    [Idle EXCEPT !.pc = IF db[t].hasUrl THEN "probe" ELSE "done",
                 !.app = t, !.doc = Load(db[t])]

\* emitHealthUpdate: the healthStatus of the published event
Emit(events, doc) == Append(events, doc.rec.healthStatus)

\* the registered targets: the defaults of the schema, and each setting that
\* the engine reads changed in turn
Registered ==
    LET r == DefaultMaxRestartAttempts
    IN  { NewApp(TRUE, TRUE, r, TRUE, TRUE, TRUE),
          NewApp(FALSE, TRUE, r, TRUE, TRUE, TRUE),
          NewApp(TRUE, FALSE, r, TRUE, TRUE, TRUE),
          NewApp(TRUE, TRUE, 5, TRUE, TRUE, TRUE),
          NewApp(TRUE, TRUE, r, FALSE, TRUE, TRUE),
          NewApp(TRUE, TRUE, r, TRUE, FALSE, TRUE),
          NewApp(TRUE, TRUE, r, TRUE, TRUE, FALSE) }

\* the state after construction
Constructed ==
    /\ now = 0
    /\ pipe = [p \in Pipes |-> Idle]
    /\ isRunning = FALSE
    /\ jobs = {}
    /\ dbUp = TRUE
    /\ overlaps = 0
    /\ alert = NoAlert
    /\ agg = NoAgg
    /\ logged = << >>

\* the state after the server has booted: the service is constructed and
\* started at once
Booted ==
    /\ now = 0
    /\ pipe = [p \in Pipes |-> Idle]
    /\ isRunning = TRUE
    /\ jobs = JobNames
    /\ dbUp = TRUE
    /\ overlaps = 0
    /\ alert = NoAlert
    /\ agg = NoAgg
    /\ logged = << >>

Init ==
    /\ Booted
    /\ db \in [Targets -> Registered]

\* start() that forgets scheduleCleanup
ServiceStartNoCleanup ==
    /\ IF isRunning
       THEN UNCHANGED <<isRunning, jobs>>
       ELSE /\ isRunning' = TRUE
            /\ jobs' = {"main-monitoring", "aggregation"}
    /\ UNCHANGED <<now, db, pipe, dbUp, overlaps, alert, agg, logged>>

\* start(): a no-op with a warning while running; otherwise
\* scheduleMonitoring and scheduleCleanup register and start the three jobs
ServiceStart ==
    /\ IF isRunning
       THEN UNCHANGED <<isRunning, jobs>>
       ELSE /\ isRunning' = TRUE
            /\ jobs' = JobNames
    /\ UNCHANGED <<now, db, pipe, dbUp, overlaps, alert, agg, logged>>

\* stop() that leaves the cron jobs scheduled
ServiceStopKeepsJobs ==
    /\ IF ~ isRunning
       THEN UNCHANGED <<isRunning, jobs>>
       ELSE /\ jobs' = jobs
            /\ isRunning' = FALSE
    /\ UNCHANGED <<now, db, pipe, dbUp, overlaps, alert, agg, logged>>

\* stop(): a no-op with a warning while stopped; otherwise every job is
\* stopped and forgotten.  The pipelines in flight are not touched.
ServiceStop ==
    /\ IF ~ isRunning
       THEN UNCHANGED <<isRunning, jobs>>
       ELSE /\ jobs' = {}
            /\ isRunning' = FALSE
    /\ UNCHANGED <<now, db, pipe, dbUp, overlaps, alert, agg, logged>>

\* the clock passes a cron period; the delay of simulateRestart is shorter
\* than the period, so a waiting restart sees at most one period pass
Advance ==
    /\ now + CheckIntervalSec <= MaxTime
    /\ \A p \in DOMAIN pipe : pipe[p].pc = "restartWait" =>
          now - pipe[p].restartAt < RestartDelaySec
    /\ now' = now + CheckIntervalSec
    /\ UNCHANGED <<db, pipe, isRunning, jobs, dbUp, overlaps, alert, agg, logged>>

\* the registry stops answering, and answers again
RegistryFails ==
    /\ dbUp
    /\ dbUp' = FALSE
    /\ UNCHANGED <<now, db, pipe, isRunning, jobs, overlaps, alert, agg, logged>>

RegistryRecovers ==
    /\ ~ dbUp
    /\ dbUp' = TRUE
    /\ UNCHANGED <<now, db, pipe, isRunning, jobs, overlaps, alert, agg, logged>>

\* a later batch is given up when a pipeline before it threw (Promise.all)
PromoteUnlessThrown(slot, thrown) ==
    IF thrown
    THEN [slot EXCEPT !.pc = "idle"]
    ELSE [slot EXCEPT !.pc = IF slot.doc.rec.hasUrl THEN "probe" ELSE "done"]

\* a target of a later batch starts its pipeline, whatever the pipelines of
\* the batches before it did (Promise.allSettled)
Promote(slot, thrown) ==
    [slot EXCEPT !.pc = IF slot.doc.rec.hasUrl THEN "probe" ELSE "done"]

\* the main-monitoring job: performMonitoringChecks up to the first batch.
\* The query loads every due target; the first BatchSize of them get their
\* pipeline, the others wait for their batch with the document as loaded.
\* A rejected query is caught and logged: no effect.
Tick(k) ==
    /\ "main-monitoring" \in jobs
    /\ dbUp
    /\ LET due == {t \in DOMAIN db : DueForMonitoring(db[t], now)}
           rank(t) == Cardinality({u \in due : Position(u) < Position(t)}) + 1
           slot(t) == CHOOSE q \in IdlePipes :
                         Cardinality({r \in IdlePipes : r < q}) = rank(t) - 1
       IN  /\ due # {}
           /\ Cardinality(due) <= Cardinality(IdlePipes)
           /\ \A t \in due : db[t].checksPerformed < MaxChecks
           /\ Overlapping(Cardinality(due), k)
           /\ pipe' = [p \in DOMAIN pipe |->
                         IF \E t \in due : slot(t) = p
                         THEN LET t == CHOOSE u \in due : slot(u) = p
                              IN  IF rank(t) <= BatchSize
                                  THEN StartPipe(t)
                                  ELSE [StartPipe(t) EXCEPT !.pc = "queued"]
                         ELSE pipe[p]]
    /\ UNCHANGED <<now, db, isRunning, jobs, dbUp, alert, agg, logged>>

\* a rejected query that ends the scheduler
TickFailsAndStops ==
    /\ "main-monitoring" \in jobs
    /\ ~ dbUp
    /\ Len(logged) < MaxErrors
    /\ logged' = Append(logged, "main-monitoring")
    /\ isRunning' = FALSE
    /\ jobs' = {}
    /\ UNCHANGED <<now, db, pipe, dbUp, overlaps, alert, agg>>

\* the main-monitoring job when findAppsForMonitoring is rejected: the catch
\* block of performMonitoringChecks logs the error and the run is over
TickFails ==
    /\ "main-monitoring" \in jobs
    /\ ~ dbUp
    /\ Len(logged) < MaxErrors
    /\ logged' = Append(logged, "main-monitoring")
    /\ UNCHANGED <<now, db, pipe, isRunning, jobs, dbUp, overlaps, alert, agg>>

\* performMonitoringChecks: every pipeline of the batch has settled, the next
\* batch starts
NextBatch ==
    /\ \E p \in DOMAIN pipe : pipe[p].pc = "queued"
    /\ \A p \in DOMAIN pipe : pipe[p].pc \in {"idle", "done", "queued"}
    /\ LET queued == {p \in DOMAIN pipe : pipe[p].pc = "queued"}
           batch  == {p \in queued :
                         Cardinality({q \in queued : q < p}) < BatchSize}
           thrown == \E p \in DOMAIN pipe : pipe[p].pc = "done" /\ pipe[p].thrown
       IN  pipe' = [p \in DOMAIN pipe |->
                       IF p \in batch THEN Promote(pipe[p], thrown) ELSE pipe[p]]
    /\ UNCHANGED <<now, db, isRunning, jobs, dbUp, overlaps, alert, agg, logged>>

\* a manual check that is for monitored targets only
ManualCheckIfMonitored(t, k, limit) ==
    /\ dbUp
    /\ db[t].isActive
    /\ db[t].monitoringEnabled
    /\ IdlePipes # {}
    /\ db[t].checksPerformed < limit
    /\ LET p == CHOOSE q \in IdlePipes : \A r \in IdlePipes : q <= r
       IN  pipe' = [pipe EXCEPT ![p] = StartPipe(t)]
    /\ Overlapping(1, k)
    /\ UNCHANGED <<now, db, isRunning, jobs, dbUp, alert, agg, logged>>

\* performManualCheck: findOne finds no active document of that appId
NotFound(t) == IF t \in DOMAIN db THEN ~ db[t].isActive ELSE TRUE

\* performManualCheck when findOne is rejected or finds nothing: the error is
\* logged and thrown to the caller
ManualCheckRejected(t) ==
    /\ IF dbUp THEN NotFound(t) ELSE TRUE
    /\ Len(logged) < MaxErrors
    /\ logged' = Append(logged, "manual-check")
    /\ UNCHANGED <<now, db, pipe, isRunning, jobs, dbUp, overlaps, alert, agg>>

\* performManualCheck of an active target, up to the request
ManualCheck(t, k, limit) ==
    /\ dbUp
    /\ db[t].isActive
    /\ IdlePipes # {}
    /\ db[t].checksPerformed < limit
    /\ LET p == CHOOSE q \in IdlePipes : \A r \in IdlePipes : q <= r
       IN  pipe' = [pipe EXCEPT ![p] = StartPipe(t)]
    /\ Overlapping(1, k)
    /\ UNCHANGED <<now, db, isRunning, jobs, dbUp, alert, agg, logged>>

\* attemptAutoRestart up to its first save()
BeginRestart(slot) ==
    [slot EXCEPT !.doc = SetPath(slot.doc, "healthStatus", "restarting"),
                 !.pc = "restartSave"]

\* checkAppHealth after the remediation step: the final emitHealthUpdate
Complete(slot) ==
    [slot EXCEPT !.events = Emit(slot.events, slot.doc), !.pc = "done"]

\* checkAlertConditions on the updated document: the alert decision, and the
\* document after the createIncident of the alert branch (saved or not)
AlertDecision(doc, status, rt, userFound) ==
    userFound /\ ShouldSendAlert(doc.rec, status, rt)

AlertIncident(doc, status, rt, userFound, t) ==
    IF AlertDecision(doc, status, rt, userFound) /\ OpensIncident(doc.rec, status)
    THEN CreateIncident(doc, "downtime", "high", t)
    ELSE doc

\* checkAppHealth from the settled request on: the classification,
\* updateHealthStatus and its save(), checkAlertConditions, and the
\* shouldAutoRestart test.  A rejected save() of updateHealthStatus is thrown
\* to the caller; one of createIncident is caught by checkAlertConditions.
CheckAppHealth(p, resp, rt, userFound) ==
    /\ pipe[p].pc = "probe"
    /\ LET t       == pipe[p].app
           status  == Classify(resp)
           updated == UpdateHealthStatus(pipe[p].doc, status, rt, now)
           base    == [pipe[p] EXCEPT !.status = status]
           alerted == AlertIncident(Saved(updated), status, rt, userFound, now)
           doc     == IF SaveSucceeds(alerted) THEN Saved(alerted) ELSE alerted
           after   == [base EXCEPT !.doc = doc,
                          !.alerted = AlertDecision(Saved(updated), status, rt, userFound)]
       IN  IF SaveSucceeds(updated)
           THEN /\ db' = [db EXCEPT ![t] = Persist(Persist(@, updated), alerted)]
                /\ pipe' = [pipe EXCEPT ![p] =
                              IF ShouldAutoRestart(doc.rec)
                              THEN BeginRestart(after)
                              ELSE Complete(after)]
           ELSE /\ db' = db
                /\ pipe' = [pipe EXCEPT ![p] =
                              [base EXCEPT !.doc = updated, !.pc = "done",
                                           !.thrown = TRUE]]
    /\ UNCHANGED <<now, isRunning, jobs, dbUp, overlaps, alert, agg, logged>>

\* the catch block of attemptAutoRestart up to its save()
CatchRestart(slot) ==
    [slot EXCEPT !.doc = SetPath(slot.doc, "healthStatus", "down"),
                 !.pc = "recoverSave"]

\* attemptAutoRestart: the save() of restarting settles
RestartSave(p) ==
    /\ pipe[p].pc = "restartSave"
    /\ LET t == pipe[p].app
           slot == pipe[p]
       IN  IF SaveSucceeds(slot.doc)
           THEN /\ db' = [db EXCEPT ![t] = Persist(@, slot.doc)]
                /\ pipe' = [pipe EXCEPT ![p] =
                              [slot EXCEPT !.doc = Saved(slot.doc),
                                           !.events = Emit(slot.events, slot.doc),
                                           !.restartAt = now,
                                           !.pc = "restartWait"]]
           ELSE /\ db' = db
                /\ pipe' = [pipe EXCEPT ![p] = CatchRestart(slot)]
    /\ UNCHANGED <<now, isRunning, jobs, dbUp, overlaps, alert, agg, logged>>

\* simulateRestart after its delay, up to the save()
RestartedDoc(doc, t) ==
    LET d1 == SetPath(doc, "consecutiveFailures", 0)
        d2 == SetPath(d1, "healthStatus", "up")
    IN  SetDate(d2, "lastCheck", t)

\* simulateRestart: the delay has passed, the save() settles
SimulateRestart(p) ==
    /\ pipe[p].pc = "restartWait"
    /\ LET t == pipe[p].app
           slot == pipe[p]
           doc == RestartedDoc(slot.doc, now)
       IN  IF SaveSucceeds(doc)
           THEN /\ db' = [db EXCEPT ![t] = Persist(@, doc)]
                /\ pipe' = [pipe EXCEPT ![p] =
                              Complete([slot EXCEPT !.doc = Saved(doc)])]
           ELSE /\ db' = db
                /\ pipe' = [pipe EXCEPT ![p] =
                              CatchRestart([slot EXCEPT !.doc = doc])]
    /\ UNCHANGED <<now, isRunning, jobs, dbUp, overlaps, alert, agg, logged>>

\* the catch block of attemptAutoRestart: its save() settles
RecoverSave(p) ==
    /\ pipe[p].pc = "recoverSave"
    /\ LET t == pipe[p].app
           slot == pipe[p]
       IN  IF SaveSucceeds(slot.doc)
           THEN /\ db' = [db EXCEPT ![t] = Persist(@, slot.doc)]
                /\ pipe' = [pipe EXCEPT ![p] =
                              Complete([slot EXCEPT !.doc = Saved(slot.doc),
                                            !.events = Emit(slot.events, slot.doc)])]
           ELSE /\ db' = db
                /\ pipe' = [pipe EXCEPT ![p] =
                              [slot EXCEPT !.pc = "done", !.thrown = TRUE]]
    /\ UNCHANGED <<now, isRunning, jobs, dbUp, overlaps, alert, agg, logged>>

\* the promise of checkAppHealth settles
Finish(p) ==
    /\ pipe[p].pc = "done"
    /\ pipe' = [pipe EXCEPT ![p] = Idle]
    /\ UNCHANGED <<now, db, isRunning, jobs, dbUp, overlaps, alert, agg, logged>>

\* one representative of each class of responses and of response times
SomeResponses ==
    { [kind |-> "http", code |-> 200], [kind |-> "http", code |-> 404],
      [kind |-> "error", code |-> "ECONNREFUSED"] }

SomeResponseTimes == {100, 6000}

Restart ==
    \/ \E p \in Pipes : RestartSave(p)
    \/ \E p \in Pipes : SimulateRestart(p)

\* the check pipelines of the booted server, overlapping, on a registry that
\* answers
Next ==
    \/ Advance
    \/ Tick(MaxOverlaps)
    \/ \E t \in Targets : ManualCheck(t, MaxOverlaps, MaxChecks)
    \/ \E p \in Pipes, resp \in SomeResponses, rt \in SomeResponseTimes, userFound \in BOOLEAN :
          CheckAppHealth(p, resp, rt, userFound)
    \/ Restart
    \/ \E p \in Pipes : Finish(p)

Spec == Init /\ [][Next]_vars

\* ---------------------------------------------------- one pipeline at a time
\* documents as a run of f failed checks leaves them (or one successful
\* check), for every f up to MaxFailures
Observed ==
    { [NewApp(m, a, DefaultMaxRestartAttempts, TRUE, TRUE, TRUE) EXCEPT
          !.healthStatus = h,
          !.consecutiveFailures = f,
          !.checksPerformed = IF h = "up" THEN 1 ELSE f,
          !.uptimePercentage = IF f = 0 THEN 100 ELSE 0] :
        m \in BOOLEAN, a \in BOOLEAN, f \in 0..MaxFailures,
        h \in {"unknown", "up", "down", "warning", "restarting"} }

\* the health statuses that go with the counters of a document
Coherent(rec) ==
    CASE rec.healthStatus = "unknown"    -> rec.checksPerformed = 0
      [] rec.healthStatus = "up"         -> rec.consecutiveFailures = 0
      [] rec.healthStatus = "restarting" ->
             rec.consecutiveFailures >= RestartFailures /\ rec.autoRestart
      [] OTHER                           -> rec.consecutiveFailures > 0

InitObserve ==
    /\ Booted
    /\ db \in [Targets -> {rec \in Observed : Coherent(rec)}]

\* single checks of such documents, with every response and response time
NextObserve ==
    \/ \E t \in Targets : ManualCheck(t, 0, MaxFailures + 1)
    \/ \E p \in Pipes, resp \in Responses, rt \in ResponseTimes, userFound \in BOOLEAN :
          CheckAppHealth(p, resp, rt, userFound)
    \/ Restart
    \/ \E p \in Pipes : Finish(p)

SpecObserve == InitObserve /\ [][NextObserve]_vars

\* a target whose probes all observe down, checked by one pipeline at a time
DownResponses == {resp \in Responses : Classify(resp) = "down"}

InitDown ==
    /\ Booted
    /\ db \in [Targets -> {rec \in Registered :
                              rec.hasUrl /\ rec.isActive /\ rec.deployed}]

NextDown ==
    \/ Advance
    \/ Tick(0)
    \/ \E t \in Targets : ManualCheck(t, 0, MaxChecks)
    \/ \E p \in Pipes, resp \in DownResponses, rt \in ResponseTimes, userFound \in BOOLEAN :
          CheckAppHealth(p, resp, rt, userFound)
    \/ Restart
    \/ \E p \in Pipes : Finish(p)

SpecDown == InitDown /\ [][NextDown]_vars

\* one pipeline at a time on a registry that may stop answering at any moment
NextFaulty ==
    \/ Advance
    \/ RegistryFails
    \/ RegistryRecovers
    \/ Tick(0)
    \/ \E t \in Targets : ManualCheck(t, 0, MaxChecks)
    \/ \E p \in Pipes, resp \in SomeResponses, rt \in SomeResponseTimes, userFound \in BOOLEAN :
          CheckAppHealth(p, resp, rt, userFound)
    \/ Restart
    \/ \E p \in Pipes : RecoverSave(p)
    \/ \E p \in Pipes : Finish(p)

InitFaulty ==
    /\ Booted
    /\ db \in [Targets -> {rec \in Registered :
                              /\ rec.hasUrl /\ rec.isActive /\ rec.deployed
                              /\ rec.monitoringEnabled
                              /\ rec.maxRestartAttempts = DefaultMaxRestartAttempts}]

SpecFaulty == InitFaulty /\ [][NextFaulty]_vars

\* a tick over more targets than one batch holds, one of which may hold a
\* record that overlapping pipelines left with more consecutive failures than
\* checks: the save() of its next failed check is rejected by the validation
Skewed ==
    [NewApp(TRUE, TRUE, DefaultMaxRestartAttempts, TRUE, TRUE, TRUE) EXCEPT
        !.healthStatus = "up", !.checksPerformed = 1,
        !.consecutiveFailures = 2, !.uptimePercentage = 0]

BatchTargets == {TargetOrder[i] : i \in 1..(BatchSize + 1)}

InitBatch ==
    /\ now = 0
    /\ pipe = [p \in 1..(BatchSize + 1) |-> Idle]
    /\ isRunning = TRUE
    /\ jobs = JobNames
    /\ dbUp = TRUE
    /\ overlaps = 0
    /\ alert = NoAlert
    /\ agg = NoAgg
    /\ logged = << >>
    /\ \E bad \in BatchTargets \cup {"none"} :
          db = [t \in BatchTargets |->
                  IF t = bad THEN Skewed
                  ELSE NewApp(TRUE, TRUE, DefaultMaxRestartAttempts, TRUE, TRUE, TRUE)]

NextBatches ==
    \/ Advance
    \/ Tick(0)
    \/ NextBatch
    \/ \E p \in DOMAIN pipe, rt \in SomeResponseTimes :
          CheckAppHealth(p, [kind |-> "error", code |-> "ECONNREFUSED"], rt, TRUE)

SpecBatch == InitBatch /\ [][NextBatches]_vars

\* the service from its construction on, started and stopped at any moment,
\* with one pipeline at a time
InitService ==
    /\ Constructed
    /\ db \in [Targets -> {rec \in Registered :
                              /\ rec.hasUrl /\ rec.isActive /\ rec.deployed
                              /\ rec.maxRestartAttempts = DefaultMaxRestartAttempts}]

Pipeline ==
    \/ \E p \in Pipes, resp \in SomeResponses, rt \in SomeResponseTimes, userFound \in BOOLEAN :
          CheckAppHealth(p, resp, rt, userFound)
    \/ Restart

NextService ==
    \/ ServiceStart
    \/ ServiceStop
    \/ Advance
    \/ Tick(0)
    \/ \E t \in Targets : ManualCheck(t, 0, MaxChecks)
    \/ Pipeline
    \/ \E p \in Pipes : Finish(p)

SpecService == InitService /\ [][NextService]_vars

\* the service started and stopped at any moment while ticks alone start
\* pipelines, on targets that one or two failed checks may have left behind;
\* a pipeline in flight goes on (the request has a timeout, the restart a
\* timer, and the event loop runs their callbacks)
InitStop ==
    /\ Constructed
    /\ db \in [Targets -> {rec \in Observed :
                              /\ Coherent(rec)
                              /\ rec.consecutiveFailures < RestartFailures}]

NextStop ==
    \/ ServiceStart
    \/ ServiceStop
    \/ Advance
    \/ Tick(0)
    \/ Pipeline
    \/ \E p \in Pipes : Finish(p)

SpecStop == InitStop /\ [][NextStop]_vars /\ WF_vars(Pipeline)

\* the statuses checkAppHealth can hold when it reaches the alert
Statuses == {"up", "warning", "down", "unknown"}

\* response times on both sides of the two thresholds
AlertResponseTimes ==
    ResponseTimes \cup {SlowResponseMs, SlowResponseMs + 1, SevereResponseMs, SevereResponseMs + 1}

\* sendAlert and checkAlertConditions called with every user, alert and set
\* of failing channels, one call at a time
NextNotify ==
    \/ AlertReturns
    \/ /\ alert = NoAlert
       /\ \E user \in Users, fails \in SUBSET Channels, status \in Statuses,
             failures \in 0..MaxFailures, rt \in AlertResponseTimes :
                SendAlert(user, fails, status, failures, rt)
    \/ /\ alert = NoAlert
       /\ \E rec \in Observed, user \in {DefaultUser}, fails \in SUBSET {"email"},
             status \in Statuses, rt \in AlertResponseTimes :
                CheckAlertConditions(rec, user, fails, status, rt)

InitNotify ==
    /\ Booted
    /\ db = [t \in Targets |-> NewApp(TRUE, TRUE, DefaultMaxRestartAttempts, TRUE, TRUE, TRUE)]

SpecNotify == InitNotify /\ [][NextNotify]_vars

\* the pipelines of one target overlapping more than once: a probe that
\* outlasts the cron period while ticks and manual checks start others, with
\* the aggregation job running beside them
OverlapResponses ==
    { [kind |-> "http", code |-> 200], [kind |-> "error", code |-> "ECONNREFUSED"] }

InitOverlap ==
    /\ Booted
    /\ db \in [Targets -> {rec \in Registered :
                              /\ rec.hasUrl /\ rec.isActive /\ rec.deployed
                              /\ rec.monitoringEnabled
                              /\ rec.maxRestartAttempts = DefaultMaxRestartAttempts}]

NextOverlap ==
    \/ Advance
    \/ Tick(MaxOverlaps + 1)
    \/ \E t \in Targets : ManualCheck(t, MaxOverlaps + 1, MaxChecks)
    \/ \E p \in Pipes, resp \in OverlapResponses :
          CheckAppHealth(p, resp, 100, TRUE)
    \/ Restart
    \/ AggregateLoads
    \/ AggregateSaves
    \/ \E p \in Pipes : Finish(p)

SpecOverlap == InitOverlap /\ [][NextOverlap]_vars

\* the ticks of the booted server on a registry that may stop answering at
\* any moment, one pipeline at a time
NextTicks ==
    \/ Advance
    \/ RegistryFails
    \/ RegistryRecovers
    \/ Tick(0)
    \/ TickFails
    \/ Pipeline
    \/ \E p \in Pipes : RecoverSave(p)
    \/ \E p \in Pipes : Finish(p)

InitTicks ==
    /\ Booted
    /\ db \in [Targets -> {rec \in Observed : Coherent(rec) /\ rec.monitoringEnabled}]

SpecTicks == InitTicks /\ [][NextTicks]_vars

\* manual checks of targets that exist or not, active or not, monitored or
\* not, with or without URL, and the ticks beside them, one pipeline at a time
\* on a registry that answers
Requested == {TargetOrder[1], TargetOrder[2]}

NextManual ==
    \/ Advance
    \/ Tick(0)
    \/ \E t \in Targets : ManualCheck(t, 0, MaxChecks)
    \/ \E t \in Requested : ManualCheckRejected(t)
    \/ \E p \in Pipes, resp \in Responses, rt \in SomeResponseTimes, userFound \in BOOLEAN :
          CheckAppHealth(p, resp, rt, userFound)
    \/ Restart
    \/ \E p \in Pipes : Finish(p)

SpecManual == Init /\ [][NextManual]_vars

\* the cleanup job on records that hold two incidents each: older than the
\* retention, exactly as old, and younger, resolved and not; the clock shows
\* the retention and one cron period
StoredIncidents ==
    { [type |-> "downtime", severity |-> "high", startTime |-> t, resolved |-> r,
       endTime |-> IF r THEN t ELSE -1, duration |-> IF r THEN 0 ELSE -1] :
        t \in {0, CheckIntervalSec, RetentionSec}, r \in BOOLEAN }

InitCleanup ==
    /\ now = RetentionSec + CheckIntervalSec
    /\ pipe = [p \in Pipes |-> Idle]
    /\ isRunning = TRUE
    /\ jobs = JobNames
    /\ dbUp = TRUE
    /\ overlaps = 0
    /\ alert = NoAlert
    /\ agg = NoAgg
    /\ logged = << >>
    /\ \E i \in StoredIncidents, j \in StoredIncidents :
          db = [t \in Targets |->
                  [NewApp(TRUE, TRUE, DefaultMaxRestartAttempts, TRUE, TRUE, TRUE)
                      EXCEPT !.incidents = <<i, j>>]]

NextCleanup ==
    \/ Cleanup
    \/ RegistryFails
    \/ RegistryRecovers
    \/ \E t \in Targets : ManualCheck(t, 0, MaxChecks)
    \/ Pipeline
    \/ \E p \in Pipes : RecoverSave(p)
    \/ \E p \in Pipes : Finish(p)

SpecCleanup == InitCleanup /\ [][NextCleanup]_vars

\* the aggregation job beside the checks of a target, one pipeline at a time,
\* on records that failed checks left behind and on inactive and undeployed
\* ones
InitAggregate ==
    /\ Booted
    /\ db \in [Targets -> {rec \in Observed : Coherent(rec) /\ rec.monitoringEnabled}
                              \cup {rec \in Registered : ~ rec.isActive \/ ~ rec.deployed}]

NextAggregate ==
    \/ AggregateLoads
    \/ AggregateSaves
    \/ \E t \in Targets : ManualCheck(t, 0, MaxFailures + 1)
    \/ Pipeline
    \/ \E p \in Pipes : Finish(p)

SpecAggregate == InitAggregate /\ [][NextAggregate]_vars

\* the running scheduler with time passing, the cron job firing and every
\* request and timer settling, one pipeline at a time on a registry that
\* answers. The targets are monitored ones as earlier checks left them,
\* Skewed among them: the record overlapping checks leave (SpecOverlap).
InitLive ==
    /\ Booted
    /\ db \in [Targets -> {rec \in Observed :
                              /\ Coherent(rec)
                              /\ rec.monitoringEnabled
                              /\ rec.healthStatus # "restarting"}
                           \cup {Skewed}]

Settles ==
    \/ \E p \in Pipes, resp \in SomeResponses :
          CheckAppHealth(p, resp, 100, TRUE)
    \/ Restart

NextLive ==
    \/ Advance
    \/ Tick(0)
    \/ Settles
    \/ \E p \in Pipes : Finish(p)

SpecLive ==
    /\ InitLive
    /\ [][NextLive]_vars
    /\ WF_vars(Advance)
    /\ WF_vars(Tick(0))
    /\ WF_vars(Settles)
    /\ WF_vars(\E p \in Pipes : Finish(p))

\* ------------------------------------------------------------------ claims
OpenDowntime(rec) ==
    {i \in DOMAIN rec.incidents :
        rec.incidents[i].type = "downtime" /\ ~ rec.incidents[i].resolved}

\* the step of pipeline p that applies the observation status to its document
\* and saves it
Observes(p, status) ==
    /\ pipe[p].pc = "probe"
    /\ pipe'[p].pc \in {"done", "restartSave"}
    /\ ~ pipe'[p].thrown
    /\ pipe'[p].status = status

C2_OpensIncidentOnDown ==
    [][\A p \in Pipes :
          (Observes(p, "down") /\ pipe[p].doc.rec.healthStatus # "down") =>
             \E i \in OpenDowntime(db'[pipe[p].app]) :
                db'[pipe[p].app].incidents[i].severity =
                   IF pipe'[p].doc.rec.consecutiveFailures >= 5
                   THEN "critical" ELSE "high"]_vars

\* C3: when a probe observing up takes a target from down to up, its
\* downtime incident is resolved with endTime and duration set, and no
\* unresolved downtime incident is left
C3_ResolvesIncidentOnUp ==
    [][\A p \in Pipes :
          (Observes(p, "up") /\ pipe[p].doc.rec.healthStatus = "down") =>
             LET rec == db'[pipe[p].app]
             IN  /\ OpenDowntime(rec) = {}
                 /\ \E i \in DOMAIN rec.incidents :
                       /\ rec.incidents[i].type = "downtime"
                       /\ rec.incidents[i].resolved
                       /\ rec.incidents[i].endTime = now
                       /\ rec.incidents[i].duration =
                             rec.incidents[i].endTime - rec.incidents[i].startTime]_vars

\* C4: the alert decision a check pipeline takes after its state update is
\* false when monitoring is disabled, and otherwise true exactly when
\* (down and failures >= 3) or (response time > 5000 ms and failures >= 2) or
\* (warning and failures >= 5), the failures counted after the observation
C4_AlertDecision ==
    [][\A p \in Pipes, resp \in Responses, rt \in ResponseTimes :
          (CheckAppHealth(p, resp, rt, TRUE) /\ ~ pipe'[p].thrown) =>
             LET status   == Classify(resp)
                 failures == IF status = "up" THEN 0
                             ELSE pipe[p].doc.rec.consecutiveFailures + 1
             IN  pipe'[p].alerted <=>
                    /\ pipe[p].doc.rec.monitoringEnabled
                    /\ \/ status = "down" /\ failures >= 3
                       \/ rt > 5000 /\ failures >= 2
                       \/ status = "warning" /\ failures >= 5]_vars

\* a warning observation raised the alert at its fifth consecutive failure
C4_Witness ==
    \E p \in Pipes :
        /\ pipe[p].pc = "done"
        /\ pipe[p].status = "warning"
        /\ pipe[p].alerted
        /\ pipe[p].doc.rec.consecutiveFailures = 5

\* C5 as stated: for a monitoring-enabled target a down observation raising
\* the failures from 2 to 3 alerts, and one raising them from 1 to 2 does not,
\* for every response time
C5_DebounceAnyResponseTime ==
    [][\A p \in Pipes, resp \in DownResponses, rt \in ResponseTimes :
          (/\ CheckAppHealth(p, resp, rt, TRUE)
           /\ ~ pipe'[p].thrown
           /\ pipe[p].doc.rec.monitoringEnabled) =>
             /\ pipe[p].doc.rec.consecutiveFailures = 2 => pipe'[p].alerted
             /\ pipe[p].doc.rec.consecutiveFailures = 1 => ~ pipe'[p].alerted]_vars

\* C5: for a monitoring-enabled target a down observation raising the
\* failures from 2 to 3 alerts for every response time, and one raising them
\* from 1 to 2 alerts exactly when the response time is above 5000 ms
C5_Debounce ==
    [][\A p \in Pipes, resp \in DownResponses, rt \in ResponseTimes :
          (/\ CheckAppHealth(p, resp, rt, TRUE)
           /\ ~ pipe'[p].thrown
           /\ pipe[p].doc.rec.monitoringEnabled) =>
             /\ pipe[p].doc.rec.consecutiveFailures = 2 => pipe'[p].alerted
             /\ pipe[p].doc.rec.consecutiveFailures = 1 =>
                   (pipe'[p].alerted <=> rt > 5000)]_vars

\* a down observation took a monitored target to its second failure and
\* raised the alert
C5_Witness ==
    \E p \in Pipes :
        /\ pipe[p].pc = "done"
        /\ pipe[p].status = "down"
        /\ pipe[p].doc.rec.monitoringEnabled
        /\ pipe[p].doc.rec.consecutiveFailures = 2
        /\ pipe[p].alerted

\* C6: an up observation leaves consecutiveFailures = 0 and healthStatus = up
\* in the document and in the registry, whatever they were before
C6_UpResets ==
    [][\A p \in Pipes :
          Observes(p, "up") =>
             /\ pipe'[p].doc.rec.consecutiveFailures = 0
             /\ pipe'[p].doc.rec.healthStatus = "up"
             /\ db'[pipe[p].app].consecutiveFailures = 0
             /\ db'[pipe[p].app].healthStatus = "up"]_vars

\* an up observation was applied to a target that was down with failures
C6_Witness ==
    \E p \in Pipes :
        /\ pipe[p].pc = "done"
        /\ pipe[p].status = "up"
        /\ ~ pipe[p].thrown
        /\ pipe[p].events = <<"up">>
        /\ db[pipe[p].app].consecutiveFailures = 0
        /\ db[pipe[p].app].uptimePercentage = 100
        /\ db[pipe[p].app].checksPerformed = MaxFailures + 1

C8_RestartAtConfiguredThreshold ==
    [][\A p \in Pipes :
          (pipe[p].pc = "probe" /\ pipe'[p].pc = "restartSave") =>
             /\ pipe'[p].doc.rec.autoRestart
             /\ pipe'[p].status = "down"
             /\ pipe'[p].doc.rec.consecutiveFailures >=
                    pipe'[p].doc.rec.maxRestartAttempts]_vars

C10_FailedRestartEndsDown ==
    [][\A p \in Pipes :
          (pipe[p].pc = "recoverSave" /\ pipe'[p].pc # "recoverSave") =>
             /\ db'[pipe[p].app].healthStatus = "down"
             /\ ~ pipe'[p].thrown]_vars

\* C11: no target has two restart attempts (attemptAutoRestart) in flight at
\* once, under any interleaving of ticks, manual checks and restart durations
C11_OneRestartInFlight ==
    \A t \in Targets :
        Cardinality({p \in Pipes :
                        /\ pipe[p].app = t
                        /\ pipe[p].pc \in {"restartSave", "restartWait", "recoverSave"}}) <= 1

\* C12: when a tick has run all its batches, every target it selected whose
\* own pipeline did not throw has its lastCheck updated, whichever pipeline
\* of the same or an earlier batch threw
C12_BatchIsolation ==
    (InFlight = {} /\ \E p \in DOMAIN pipe : pipe[p].pc = "done") =>
       \A t \in DOMAIN db :
          \/ db[t].lastCheck = now
          \/ \E p \in DOMAIN pipe : pipe[p].app = t /\ pipe[p].thrown

\* the pipeline of the fourth target threw, and the targets of its batch and
\* the target of the second batch were checked
C12_Witness ==
    /\ InFlight = {}
    /\ \E p \in DOMAIN pipe : pipe[p].app = "app4" /\ pipe[p].thrown
    /\ \A t \in DOMAIN db \ {"app4"} :
          /\ db[t].lastCheck = now
          /\ db[t].checksPerformed = 1
    /\ db["app4"].lastCheck < now
    /\ Cardinality(DOMAIN db) = BatchSize + 1

\* C13: when a check pipeline ends with an exception, the registry holds the
\* record the pipeline loaded: the check it made is not counted
\* (checksPerformed is one less than in the pipeline's document) and no
\* restarting is left stored
C13_ThrowLeavesRecord ==
    [][\A p \in Pipes :
          (~ pipe[p].thrown /\ pipe'[p].thrown) =>
             /\ db'[pipe'[p].app].checksPerformed =
                   pipe'[p].doc.rec.checksPerformed - 1
             /\ db'[pipe'[p].app].healthStatus # "restarting"]_vars

\* C14: after any sequence of start() and stop() the service holds exactly
\* the jobs main-monitoring, aggregation and cleanup while isRunning, and none
\* while not; start() while running and stop() while stopped change nothing
C14_JobsFollowRunning ==
    [][/\ isRunning' => jobs' = {"main-monitoring", "aggregation", "cleanup"}
       /\ ~ isRunning' => jobs' = {}
       /\ (ServiceStart /\ isRunning) => UNCHANGED vars
       /\ (ServiceStop /\ ~ isRunning) => UNCHANGED vars]_vars

\* the service was started, ran a tick, and was stopped
C14_Witness ==
    /\ ~ isRunning
    /\ jobs = {}
    /\ now = MaxTime
    /\ \E t \in Targets : db[t].lastCheck = now /\ db[t].checksPerformed = 1

C16_TickSelectsDue ==
    [][\A p \in Pipes :
          (pipe[p].pc \in {"idle", "done"} /\ pipe'[p].pc \in {"probe", "queued"}) =>
             /\ db[pipe'[p].app].monitoringEnabled
             /\ now - db[pipe'[p].app].lastCheck > 30]_vars

\* a tick has started the pipeline of a due target with earlier checks
C16_Witness ==
    \E p \in Pipes :
        /\ pipe[p].pc = "probe"
        /\ pipe[p].doc.rec.monitoringEnabled
        /\ pipe[p].doc.rec.checksPerformed > 0
        /\ now - pipe[p].doc.rec.lastCheck > 30

\* C17: whichever of its channels fail, sendAlert calls the sender of every
\* channel the user enabled exactly once, calls no other sender, and raises
\* nothing, also when every channel fails
C17_ChannelsIsolated ==
    alert.called =>
       /\ \A c \in Channels :
             Cardinality({i \in DOMAIN alert.attempted : alert.attempted[i] = c}) =
                IF \/ c = "email" /\ alert.user.email
                   \/ c = "slack" /\ alert.user.slack /\ alert.user.slackEnabled
                   \/ c = "webhook" /\ alert.user.webhooks
                THEN 1 ELSE 0
       /\ ~ alert.raised

\* email and slack both failed and the webhook was still attempted
C17_Witness ==
    /\ alert.called
    /\ alert.attempted = <<"email", "slack", "webhook">>
    /\ alert.rejected = {"email", "slack"}
    /\ ~ alert.raised

\* C18: for every status, failure count and response time the severity of
\* the alert is critical if the status is down and the failures are at least
\* 5, else high if the status is down, else medium if the response time is
\* above 10000 ms, else low
C18_Severity ==
    alert.called =>
       alert.severity =
          IF alert.status = "down" /\ alert.consecutiveFailures >= 5 THEN "critical"
          ELSE IF alert.status = "down" THEN "high"
          ELSE IF alert.responseTime > 10000 THEN "medium"
          ELSE "low"

\* a down alert at five failures is critical
C18_Witness ==
    /\ alert.called
    /\ alert.status = "down"
    /\ alert.consecutiveFailures = 5
    /\ alert.severity = "critical"

\* the case of C19: checkAlertConditions for a monitoring-enabled target with
\* status up, two consecutive failures and a response time of 6000 ms
SlowButUp ==
    /\ alert.checked
    /\ alert.monitoringEnabled
    /\ alert.status = "up"
    /\ alert.consecutiveFailures = 2
    /\ alert.responseTime = 6000

C20_Classification ==
    [][\A p \in Pipes, outcome \in Outcomes, rt \in ResponseTimes, userFound \in BOOLEAN :
          \A resp \in Received(outcome) :
             CheckAppHealth(p, resp, rt, userFound) =>
                /\ pipe'[p].status =
                      CASE outcome \in {"2xx", "3xx"} -> "up"
                        [] outcome = "4xx" -> "warning"
                        [] outcome \in {"5xx", "refused", "dns", "timeout"} -> "down"
                        [] OTHER -> "warning"
                /\ pipe'[p].status \in {"up", "warning", "down"}
                /\ ~ pipe'[p].thrown =>
                      db'[pipe[p].app].healthStatus \in {"up", "warning", "down", "restarting"}]_vars

\* C21: the persisted checksPerformed of a target never decreases, whatever
\* ticks, manual checks, restarts and aggregation interleave, and every check
\* that applies its observation raises it by 1
C21_ChecksMonotonic ==
    [][\A t \in DOMAIN db :
          /\ db'[t].checksPerformed >= db[t].checksPerformed
          /\ \A p \in DOMAIN pipe :
                (pipe[p].app = t /\ \E status \in Statuses : Observes(p, status)) =>
                   db'[t].checksPerformed = db[t].checksPerformed + 1]_vars

\* C22: at any time at most one check pipeline is in flight for a target,
\* whatever ticks, manual checks and slow probes interleave
C22_OnePipelinePerTarget ==
    \A t \in DOMAIN db : Cardinality({p \in InFlight : pipe[p].app = t}) <= 1

\* C25: after every applied observation the persisted uptimePercentage is
\* (checksPerformed - consecutiveFailures) / checksPerformed * 100 of the
\* persisted counters and lies in [0,100], and consecutiveFailures never
\* exceeds checksPerformed in a record that checks and restarts have written
C25_UptimeFromCounters ==
    [][\A t \in DOMAIN db :
          /\ db'[t].consecutiveFailures <= db'[t].checksPerformed
          /\ \A p \in DOMAIN pipe :
                (pipe[p].app = t /\ \E status \in Statuses : Observes(p, status)) =>
                   /\ db'[t].uptimePercentage =
                         ((db'[t].checksPerformed - db'[t].consecutiveFailures) * 100)
                            \div db'[t].checksPerformed
                   /\ db'[t].uptimePercentage \in 0..100]_vars

\* C23: a tick whose query for the due targets is rejected starts no
\* pipeline and changes no record, its error is logged and goes no further,
\* and the scheduler keeps running with its main-monitoring job
C23_FailedTickIsSkipped ==
    [][TickFails =>
          /\ db' = db
          /\ pipe' = pipe
          /\ logged' = Append(logged, "main-monitoring")
          /\ isRunning' /\ jobs' = JobNames]_vars

\* after a tick failed, the registry answers again and a tick that starts
\* the pipeline of a due target can run
C23_Witness ==
    /\ logged # << >>
    /\ logged[1] = "main-monitoring"
    /\ isRunning
    /\ ENABLED Tick(0)

C27_NoUrlNoChange ==
    [][\A p \in DOMAIN pipe :
          (/\ pipe[p].pc \in {"idle", "done"}
           /\ pipe'[p].pc # "idle"
           /\ pipe'[p].app \in DOMAIN db
           /\ ~ db[pipe'[p].app].hasUrl
           /\ (Tick(0) \/ ManualCheck(pipe'[p].app, 0, MaxChecks))) =>
             /\ pipe'[p].pc = "done"
             /\ ~ pipe'[p].alerted
             /\ ~ pipe'[p].thrown
             /\ pipe'[p].events = << >>
             /\ pipe'[p].doc = Load(db[pipe'[p].app])
             /\ db' = db
             /\ alert' = alert
             /\ logged' = logged]_vars

\* the check cycle of a target without URL has ended and the record is the
\* new record still
C27_Witness ==
    \E p \in DOMAIN pipe :
        /\ pipe[p].pc = "done"
        /\ ~ db[pipe[p].app].hasUrl
        /\ db[pipe[p].app].healthStatus = "unknown"
        /\ db[pipe[p].app].checksPerformed = 0
        /\ now > 0

\* C28: a check that observes up decides no alert and sends none, whatever
\* the response time and the failures counted before: the count is reset to 0
\* before the decision
C28_UpNeverAlerts ==
    [][\A p \in Pipes, resp \in Responses, rt \in ResponseTimes, userFound \in BOOLEAN :
          (CheckAppHealth(p, resp, rt, userFound) /\ Classify(resp) = "up") =>
             /\ ~ pipe'[p].alerted
             /\ pipe'[p].doc.rec.consecutiveFailures = 0
             /\ alert' = alert]_vars

\* an up observation of a monitored target that had failed at least twice
\* ended without alert
C28_Witness ==
    \E p \in Pipes :
        /\ pipe[p].pc = "done"
        /\ pipe[p].status = "up"
        /\ ~ pipe[p].alerted
        /\ pipe[p].doc.rec.monitoringEnabled
        /\ pipe[p].doc.rec.checksPerformed >= SlowResponseFailures + 1
        /\ pipe[p].doc.rec.incidents = << >>
        /\ db[pipe[p].app].consecutiveFailures = 0

\* C29: the aggregation job leaves every active deployed target with
\* uptimePercentage = max(0, 100 - 2 * consecutiveFailures) and changes no
\* other field of any record, also while a check pipeline of the target is in
\* flight
C29_AggregationSetsUptime ==
    [][AggregateSaves =>
          LET t == Head(agg.docs).app
          IN  /\ db'[t].uptimePercentage =
                    Max(0, 100 - 2 * db'[t].consecutiveFailures)
              /\ \A f \in DocFields \ {"uptimePercentage"} : db'[t][f] = db[t][f]
              /\ \A u \in DOMAIN db \ {t} : db'[u] = db[u]]_vars

\* the targets the ticks are for
Eligible(rec) ==
    rec.isActive /\ rec.deployed /\ rec.monitoringEnabled /\ rec.hasUrl

\* the clock readings a check can store: Advance moves the clock by the interval
CheckTimes ==
    {l \in 0..MaxTime : l % CheckIntervalSec = 0}

\* C30: while the scheduler runs, an eligible target whose lastCheck is older
\* than 30 seconds later has a newer lastCheck and a larger checksPerformed,
\* and a target in restarting later is up or down
C30_EventuallyProbed ==
    /\ \A t \in Targets, l \in CheckTimes, c \in 0..(MaxChecks - 1) :
          (/\ isRunning
           /\ Eligible(db[t])
           /\ db[t].lastCheck = l
           /\ db[t].checksPerformed = c
           /\ l < now - CheckIntervalSec)
             ~> (db[t].lastCheck > l /\ db[t].checksPerformed > c)
    /\ \A t \in Targets :
          (db[t].healthStatus = "restarting") ~> (db[t].healthStatus \in {"up", "down"})

TypeOK ==
    /\ now \in 0..MaxTime \cup {RetentionSec + CheckIntervalSec}
    /\ overlaps \in 0..(MaxOverlaps + 1)
    /\ Len(logged) <= MaxErrors
    /\ agg.pc \in {"idle", "save"}
    /\ dbUp \in BOOLEAN
    /\ isRunning \in BOOLEAN

====
